---- MODULE Spec2Model ----
(***************************************************************************)
(* State-machine model of the dashboard: its fetching components, the      *)
(* medical record card and the formatting utilities.                       *)
(*                                                                         *)
(* Each React function component is modelled by                            *)
(*   - a record holding its useState cells (field names as in the source), *)
(*   - the dependency list each useEffect hook memoised at its last run    *)
(*     (an effect is pending while the current dependencies differ),       *)
(*   - the browser timers and the API requests it has in flight.           *)
(* One step is one JavaScript task: an event handler, a timer callback, the *)
(* continuation of an await, or the flush of the pending passive effects.  *)
(* The state updates of one task are applied together (automatic batching) *)
(* and the passive effects of a commit are flushed before any other task   *)
(* is handled.  The API client, the wallet and the user are the            *)
(* environment.                                                            *)
(***************************************************************************)
EXTENDS Integers, Sequences, FiniteSets, Bags, TLC

VARIABLES
    view,            \* the component under analysis (components share no state)
    lastOp,          \* the task that ran last, with the value it was handed
    pl,              \* PatientList: the useState cells
    plFetchDeps,     \* PatientList: deps memoised by the fetch effect
    plDebounceDeps,  \* PatientList: deps memoised by the debounce effect
    plTimers,        \* PatientList: browser timers, by timer id
    plTimer,         \* PatientList: `timer` captured by the last cleanup closure
    plNet,           \* PatientList: apiService.getPatients calls in flight
    sinceInput,      \* PatientList: ms since searchInput last changed (capped)
    cm,              \* ConsentManagement: the useState cells
    cmAccount,       \* ConsentManagement: the account prop
    cmFilterDeps,    \* ConsentManagement: deps memoised by the filter effect
    cmNet,           \* ConsentManagement: getConsents calls of the effect in flight
    cmSubs,          \* ConsentManagement: handleCreateConsent invocations in progress
    cmUpdates,       \* ConsentManagement: handleUpdateStatus invocations in progress
    pd,              \* PatientDetail: the useState cells
    pdPatientId,     \* PatientDetail: the patientId prop
    pdDeps,          \* PatientDetail: deps memoised by the effect
    pdNet,           \* PatientDetail: fetchPatientData calls awaiting Promise.all
    th,              \* TransactionHistory: the useState cells
    thAccount,       \* TransactionHistory: the account prop
    thDeps,          \* TransactionHistory: deps memoised by the effect
    thNet,           \* TransactionHistory: getTransactions calls in flight
    sd,              \* StatsDashboard: the useState cells
    sdDeps,          \* StatsDashboard: deps memoised by the effect
    sdNet,           \* StatsDashboard: getStats calls in flight
    mrcRecord,       \* MedicalRecordCard: the record prop
    expandedRecords, \* MedicalRecordCard: the useState cell, a map from record id to flag
    fmt              \* formatUtilService: the last call, its arguments and its result

plVars == <<pl, plFetchDeps, plDebounceDeps, plTimers, plTimer, plNet, sinceInput>>

cmVars == <<cm, cmAccount, cmFilterDeps, cmNet, cmSubs, cmUpdates>>

pdVars == <<pd, pdPatientId, pdDeps, pdNet>>

thVars == <<th, thAccount, thDeps, thNet>>

sdVars == <<sd, sdDeps, sdNet>>

mrcVars == <<mrcRecord, expandedRecords>>

fmtVars == <<fmt>>

notPL == <<cmVars, pdVars, thVars, sdVars, mrcVars, fmtVars>>

notCM == <<plVars, pdVars, thVars, sdVars, mrcVars, fmtVars>>

notPD == <<plVars, cmVars, thVars, sdVars, mrcVars, fmtVars>>

notTH == <<plVars, cmVars, pdVars, sdVars, mrcVars, fmtVars>>

notSD == <<plVars, cmVars, pdVars, thVars, mrcVars, fmtVars>>

notMRC == <<plVars, cmVars, pdVars, thVars, sdVars, fmtVars>>

notFmt == <<plVars, cmVars, pdVars, thVars, sdVars, mrcVars>>

vars == <<view, lastOp, plVars, cmVars, pdVars, thVars, sdVars, mrcVars, fmtVars>>

----------------------------------------------------------------------------
(* Bounds of the model *)

MaxInflight == 2     \* API calls one component may have in flight
MaxSubmits == 1      \* handleCreateConsent / handleUpdateStatus invocations in progress
MaxTimers == 2       \* browser timer ids
MaxPage == 2         \* largest page / totalPages the server reports
MaxLen == 4          \* longest text handed to truncateDescription
MaxAddressLen == 16  \* longest address prefix handed to formatWalletAddress
TickMs == 250        \* granularity of the clock

(* Program constants *)

DebounceMs == 500    \* PatientList debounce delay
PageSize == 10       \* PatientList items per page
DescriptionLimit == 200  \* MedicalRecordCard: length above which a description is cut
HeadLength == 8      \* formatWalletAddress: characters kept at the start
TailLength == 6      \* formatWalletAddress: characters kept at the end

----------------------------------------------------------------------------
(* JavaScript values *)

\* null in a string-typed cell (error, account, patientId)
Null == "<null>"

\* null in an object-typed cell (pagination, patient, stats)
NullObj == [null |-> TRUE]

\* x || dflt for a string x: the empty string and null are falsy
StrOr(x, dflt) == IF x = Null \/ x = "" THEN dflt ELSE x

\* x || dflt for an object x
ObjOr(x, dflt) == IF x = NullObj THEN dflt ELSE x

\* obj.field || dflt, where a missing property reads as undefined
FieldOr(obj, field, dflt) == IF field \in DOMAIN obj THEN obj[field] ELSE dflt

\* err.message || dflt
MessageOr(err, dflt) == StrOr(FieldOr(err, "message", Null), dflt)

\* What a rejected call carries: an Error with or without a message, or a thrown
\* object that has no message property
Errors == { [message |-> "Network Error"], [message |-> ""], [status |-> 500] }

\* The memoised deps of an effect that has not run yet
NeverRun == <<"never run">>

\* The API calls in flight are a bag of requests whose promises are pending
HasRoom(net) == BagCardinality(net) < MaxInflight

Send(net, request) == net (+) SetToBag({request})

Settle(net, request) == net (-) SetToBag({request})

\* A timer id that is not armed
Free == [stage |-> "free"]

----------------------------------------------------------------------------
(* PatientList *)

\* Search strings the user can have in the input
Terms == {"", "a"}

\* What apiService.getPatients resolves with: the patients property may be absent
PatientsResponses ==
    { [patients |-> <<[id |-> "patient-001"]>>, pagination |-> [page |-> n, totalPages |-> t]] :
        n \in 1..MaxPage, t \in 0..MaxPage }
    \cup
    { [pagination |-> [page |-> n, totalPages |-> t]] : n \in 1..MaxPage, t \in 0..MaxPage }

plInit ==
    /\ pl = [ patients |-> <<>>, loading |-> TRUE, error |-> Null, searchTerm |-> "",
              searchInput |-> "", currentPage |-> 1, pagination |-> NullObj ]
    /\ plFetchDeps = NeverRun
    /\ plDebounceDeps = NeverRun
    /\ plTimers = [i \in 1..MaxTimers |-> Free]
    /\ plTimer = 0
    /\ plNet = EmptyBag
    /\ sinceInput = 0

\* The dependency lists of the two effects in the current render
plFetchDepsNow(st) == <<st.currentPage, st.searchTerm>>

plDebounceDepsNow(st) == <<st.searchInput>>

plFetchEffectPending == plFetchDeps # plFetchDepsNow(pl)

plDebounceEffectPending == plDebounceDeps # plDebounceDepsNow(pl)

plEffectsPending == plFetchEffectPending \/ plDebounceEffectPending

\* The synchronous part of fetchPatients: the two setters and the API call
fetchPatients(st) == [st EXCEPT !.loading = TRUE, !.error = Null]

getPatientsRequest(st) ==
    [page |-> st.currentPage, limit |-> PageSize, search |-> st.searchTerm]

\* Mutant: the continuation without setCurrentPage(response.pagination.page)
fetchPatientsResolvedKeepsPage(st, response) ==
    [st EXCEPT !.patients = FieldOr(response, "patients", <<>>),
               !.pagination = [ page |-> response.pagination.page,
                                totalPages |-> response.pagination.totalPages,
                                hasNextPage |-> response.pagination.page < response.pagination.totalPages,
                                hasPrevPage |-> response.pagination.page > 1 ],
               !.error = Null,
               !.loading = FALSE]

\* The continuation of fetchPatients after the await resolved with response
fetchPatientsResolved(st, response) ==
    [st EXCEPT !.patients = FieldOr(response, "patients", <<>>),
               !.currentPage = response.pagination.page,
               !.pagination = [ page |-> response.pagination.page,
                                totalPages |-> response.pagination.totalPages,
                                hasNextPage |-> response.pagination.page < response.pagination.totalPages,
                                hasPrevPage |-> response.pagination.page > 1 ],
               !.error = Null,
               !.loading = FALSE]

\* The catch and finally blocks of fetchPatients
fetchPatientsRejected(st, err) ==
    [st EXCEPT !.error = MessageOr(err, "Failed to fetch patients"),
               !.patients = <<>>,
               !.loading = FALSE]

\* Mutant: a debounce effect whose cleanup clears nothing
clearTimeoutSkipped(timers, id) == timers

\* The timers left by the cleanup of the debounce effect: clearTimeout(timer)
clearTimeout(timers, id) ==
    IF id \in DOMAIN timers THEN [timers EXCEPT ![id] = Free] ELSE timers

FreeTimer(timers) ==
    CHOOSE i \in 1..MaxTimers : timers[i] = Free /\ \A j \in 1..MaxTimers : j < i => timers[j] # Free

\* The timer the debounce effect arms: its callback closes over searchInput
setTimeout(timers, id, input) ==
    [timers EXCEPT ![id] = [stage |-> "armed", searchInput |-> input, remaining |-> DebounceMs]]

\* Mutant: a timer callback without setCurrentPage(1)
debounceCallbackKeepsPage(st, input) == [st EXCEPT !.searchTerm = input]

\* The body of the timer callback
debounceCallback(st, input) == [st EXCEPT !.searchTerm = input, !.currentPage = 1]

\* What the render shows
plInputRendered == ~pl.loading /\ pl.error = Null

plControlsRendered == plInputRendered /\ pl.pagination # NullObj

plPreviousEnabled == plControlsRendered /\ ~(pl.currentPage = 1)

plNextEnabled == plControlsRendered /\ ~(pl.currentPage = pl.pagination.totalPages)

handlePreviousPage(st) ==
    IF st.pagination # NullObj /\ st.pagination.hasPrevPage
    THEN [st EXCEPT !.currentPage = st.currentPage - 1]
    ELSE st

\* Mutant: handleNextPage without its guard
handleNextPageUnguarded(st) == [st EXCEPT !.currentPage = st.currentPage + 1]

handleNextPage(st) ==
    IF st.pagination # NullObj /\ st.pagination.hasNextPage
    THEN [st EXCEPT !.currentPage = st.currentPage + 1]
    ELSE st

\* A task may leave the fetch effect pending only if a call slot is left for it
plRoomFor(st, net) == plFetchDepsNow(st) # plFetchDeps => HasRoom(net)

\* Flush of the passive effects of the last commit, in declaration order
PLRunEffects ==
    /\ view = "PatientList"
    /\ plEffectsPending
    /\ plFetchEffectPending => HasRoom(plNet)
    /\ plDebounceEffectPending => \E i \in 1..MaxTimers : clearTimeout(plTimers, plTimer)[i] = Free
    /\ pl' = IF plFetchEffectPending THEN fetchPatients(pl) ELSE pl
    /\ plNet' = IF plFetchEffectPending
                THEN Send(plNet, getPatientsRequest(pl))
                ELSE plNet
    /\ plFetchDeps' = plFetchDepsNow(pl)
    /\ IF plDebounceEffectPending
       THEN LET cleared == clearTimeout(plTimers, plTimer)
                id == FreeTimer(cleared)
            IN /\ plTimers' = setTimeout(cleared, id, pl.searchInput)
               /\ plTimer' = id
       ELSE UNCHANGED <<plTimers, plTimer>>
    /\ plDebounceDeps' = plDebounceDepsNow(pl)
    /\ lastOp' = [name |-> "runEffects"]
    /\ UNCHANGED <<view, notPL, sinceInput>>

\* handleSearch: the user edits the search input
PLHandleSearch ==
    /\ view = "PatientList"
    /\ ~plEffectsPending
    /\ plInputRendered
    /\ \E v \in Terms \ {pl.searchInput} :
         pl' = [pl EXCEPT !.searchInput = v]
    /\ sinceInput' = 0
    /\ lastOp' = [name |-> "handleSearch"]
    /\ UNCHANGED <<view, notPL, plFetchDeps, plDebounceDeps, plTimers, plTimer, plNet>>

\* TickMs of time pass
PLTick ==
    /\ view = "PatientList"
    /\ ~plEffectsPending
    /\ plTimers' = [i \in 1..MaxTimers |->
                      IF plTimers[i] = Free THEN Free
                      ELSE [plTimers[i] EXCEPT !.remaining =
                              IF @ > TickMs THEN @ - TickMs ELSE 0]]
    /\ sinceInput' = IF sinceInput + TickMs > DebounceMs THEN DebounceMs ELSE sinceInput + TickMs
    /\ \/ plTimers' # plTimers
       \/ sinceInput' # sinceInput
    /\ lastOp' = [name |-> "tick"]
    /\ UNCHANGED <<view, notPL, pl, plFetchDeps, plDebounceDeps, plTimer, plNet>>

\* A due timer runs its callback
PLTimerFire ==
    /\ view = "PatientList"
    /\ ~plEffectsPending
    /\ \E i \in 1..MaxTimers :
         /\ plTimers[i] # Free
         /\ plTimers[i].remaining = 0
         /\ pl' = debounceCallback(pl, plTimers[i].searchInput)
         /\ plTimers' = [plTimers EXCEPT ![i] = Free]
    /\ plRoomFor(pl', plNet)
    /\ lastOp' = [name |-> "timerFire"]
    /\ UNCHANGED <<view, notPL, plFetchDeps, plDebounceDeps, plTimer, plNet, sinceInput>>

\* A getPatients call resolves and the try block of fetchPatients continues
PLFetchResolved ==
    /\ view = "PatientList"
    /\ ~plEffectsPending
    /\ \E request \in BagToSet(plNet), r \in PatientsResponses :
         /\ pl' = fetchPatientsResolved(pl, r)
         /\ plNet' = Settle(plNet, request)
         /\ lastOp' = [name |-> "fetchResolved", response |-> r]
    /\ UNCHANGED <<view, notPL, plFetchDeps, plDebounceDeps, plTimers, plTimer, sinceInput>>

\* A getPatients call rejects and the catch block of fetchPatients runs
PLFetchRejected ==
    /\ view = "PatientList"
    /\ ~plEffectsPending
    /\ \E request \in BagToSet(plNet), e \in Errors :
         /\ pl' = fetchPatientsRejected(pl, e)
         /\ plNet' = Settle(plNet, request)
         /\ lastOp' = [name |-> "fetchRejected", err |-> e]
    /\ UNCHANGED <<view, notPL, plFetchDeps, plDebounceDeps, plTimers, plTimer, sinceInput>>

\* The user clicks Previous
PLHandlePreviousPage ==
    /\ view = "PatientList"
    /\ ~plEffectsPending
    /\ plPreviousEnabled
    /\ pl' = handlePreviousPage(pl)
    /\ plRoomFor(pl', plNet)
    /\ lastOp' = [name |-> "handlePreviousPage"]
    /\ UNCHANGED <<view, notPL, plFetchDeps, plDebounceDeps, plTimers, plTimer, plNet, sinceInput>>

\* The user clicks Next
PLHandleNextPage ==
    /\ view = "PatientList"
    /\ ~plEffectsPending
    /\ plNextEnabled
    /\ pl' = handleNextPage(pl)
    /\ plRoomFor(pl', plNet)
    /\ lastOp' = [name |-> "handleNextPage"]
    /\ UNCHANGED <<view, notPL, plFetchDeps, plDebounceDeps, plTimers, plTimer, plNet, sinceInput>>

PLNext ==
    \/ PLRunEffects
    \/ PLHandleSearch
    \/ PLTick
    \/ PLTimerFire
    \/ PLFetchResolved
    \/ PLFetchRejected
    \/ PLHandlePreviousPage
    \/ PLHandleNextPage

----------------------------------------------------------------------------
(* ConsentManagement *)

\* Wallet addresses the account prop can hold
Accounts == {"0x742d35Cc"}

\* JavaScript truthiness of a string-typed value
Truthy(x) == x # Null /\ x # ""

PatientIds == {"", "patient-001"}

Purposes == {"", "Research Study Participation"}

FilterStatuses == {"all", "pending"}

\* What apiService.getConsents resolves with: the consents property may be absent
ConsentsResponses ==
    { [consents |-> <<[id |-> "consent-001", status |-> "pending"]>>],
      [consents |-> <<[id |-> "consent-001", status |-> "active"]>>],
      [success |-> TRUE] }

NoFormData == [patientId |-> "", purpose |-> ""]

cmInit ==
    /\ cm = [ consents |-> <<>>, loading |-> TRUE, error |-> Null, filterStatus |-> "all",
              showCreateForm |-> FALSE, formData |-> NoFormData ]
    /\ cmAccount \in IF view = "ConsentManagement" THEN Accounts \cup {Null} ELSE {Null}
    /\ cmFilterDeps = NeverRun
    /\ cmNet = EmptyBag
    /\ cmSubs = EmptyBag
    /\ cmUpdates = EmptyBag

cmFilterDepsNow(st) == <<st.filterStatus>>

cmEffectPending == cmFilterDeps # cmFilterDepsNow(cm)

\* An invocation of handleCreateConsent whose awaited fetchConsents() has settled
\* continues before any other task
cmResetPending == \E sub \in BagToSet(cmSubs) : sub.pc = "resetting"

cmIdle == ~cmEffectPending /\ ~cmResetPending

\* The invocations of the two async handlers that have not finished
cmInProgress == BagCardinality(cmSubs) + BagCardinality(cmUpdates)

\* Room for one more un-awaited API call (getConsents, updateConsent)
cmHasRoom == BagCardinality(cmNet) + BagCardinality(cmUpdates) < MaxInflight

\* The synchronous part of fetchConsents: the two setters and the API call
fetchConsents(st) == [st EXCEPT !.loading = TRUE, !.error = Null]

\* Mutant: the filter passed through as it is, 'all' included
getConsentsRequestUnfiltered(filterStatus) == [patientId |-> Null, status |-> filterStatus]

getConsentsRequest(filterStatus) ==
    [patientId |-> Null, status |-> IF filterStatus = "all" THEN Null ELSE filterStatus]

\* The continuation of fetchConsents after the await resolved with response
fetchConsentsResolved(st, response) ==
    [st EXCEPT !.consents = FieldOr(response, "consents", <<>>),
               !.error = Null,
               !.loading = FALSE]

\* The catch and finally blocks of fetchConsents
fetchConsentsRejected(st, err) ==
    [st EXCEPT !.error = MessageOr(err, "Failed to fetch consents"),
               !.consents = <<>>,
               !.loading = FALSE]

\* What the render shows
cmMainRendered == ~cm.loading /\ cm.error = Null

cmCreateButtonEnabled == cmMainRendered /\ ~(~Truthy(cmAccount))

\* Mutant: a form rendered whenever it is toggled on
cmFormDisplayedWithoutAccount == cmMainRendered /\ cm.showCreateForm

cmFormDisplayed == cmMainRendered /\ cm.showCreateForm /\ Truthy(cmAccount)

cmFiltersRendered == cmMainRendered /\ ~(Len(cm.consents) = 0)

\* The message handleCreateConsent has signed
consentMessage(formData) ==
    <<"I consent to: ", formData.purpose, " for patient: ", formData.patientId>>

\* The wallet's signature over a message, by the signer the wallet holds
signMessage(message, signer) == [over |-> message, by |-> signer]

\* Mutant: createConsent called with a signature that was not awaited
createConsentPayloadUnsigned(formData, account, signature) ==
    [ patientId |-> formData.patientId, purpose |-> formData.purpose,
      walletAddress |-> account, signature |-> NullObj ]

\* The argument of apiService.createConsent
createConsentPayload(formData, account, signature) ==
    [ patientId |-> formData.patientId, purpose |-> formData.purpose,
      walletAddress |-> account, signature |-> signature ]

\* handleCreateConsent up to its first await: the invocations in progress after
\* a submit in a render with this formData, account and filterStatus
handleCreateConsent(subs, st, account) ==
    IF ~Truthy(account)
    THEN subs
    ELSE subs (+) SetToBag({[ pc |-> "signing", formData |-> st.formData, account |-> account,
                              filterStatus |-> st.filterStatus,
                              message |-> consentMessage(st.formData),
                              signCalls |-> 1, createCalls |-> 0 ]})

\* handleCreateConsent after signMessage resolved: createConsent is called
afterSign(sub, signature) ==
    [ pc |-> "creating", formData |-> sub.formData, account |-> sub.account,
      filterStatus |-> sub.filterStatus, message |-> sub.message,
      signCalls |-> sub.signCalls, createCalls |-> sub.createCalls + 1,
      signature |-> signature,
      payload |-> createConsentPayload(sub.formData, sub.account, signature) ]

\* Mutant: fetchConsents() called without await, the reset follows at once
afterCreateUnawaited(sub) ==
    [ pc |-> "resetting", formData |-> sub.formData, account |-> sub.account,
      filterStatus |-> sub.filterStatus, message |-> sub.message,
      signCalls |-> sub.signCalls, createCalls |-> sub.createCalls,
      signature |-> sub.signature, payload |-> sub.payload,
      request |-> getConsentsRequest(sub.filterStatus) ]

\* handleCreateConsent after createConsent resolved: fetchConsents() is awaited
afterCreate(sub) ==
    [ pc |-> "refetching", formData |-> sub.formData, account |-> sub.account,
      filterStatus |-> sub.filterStatus, message |-> sub.message,
      signCalls |-> sub.signCalls, createCalls |-> sub.createCalls,
      signature |-> sub.signature, payload |-> sub.payload,
      request |-> getConsentsRequest(sub.filterStatus) ]

\* The awaited fetchConsents() has settled
afterRefetch(sub) == [sub EXCEPT !.pc = "resetting"]

\* handleCreateConsent after the refetch: the form is reset and hidden
resetForm(st) == [st EXCEPT !.formData = NoFormData, !.showCreateForm = FALSE]

\* Mutant: a catch block that resets the form as the success path does
createConsentFailedResets(st) == resetForm(st)

\* The catch block of handleCreateConsent: an alert, no state update
createConsentFailed(st) == st

Replace(subs, old, new) == (subs (-) SetToBag({old})) (+) SetToBag({new})

\* Mutant: an Approve button on every consent card
approveRenderedAlways(consent) == TRUE

\* ConcentCard renders the Approve button for this consent
approveRendered(consent) == consent.status = "pending"

\* The argument handleApprove hands to onUpdateStatus
handleApprove(consent) == consent.id

\* handleUpdateStatus up to its await: updateConsent is called, by an invocation
\* created in a render with this filterStatus
handleUpdateStatus(updates, st, consentId) ==
    updates (+) SetToBag({[ consentId |-> consentId, body |-> [status |-> "active"],
                            filterStatus |-> st.filterStatus ]})

\* The catch block of handleUpdateStatus: an alert, no state update
updateConsentFailed(st) == st

\* Flush of the filter effect
CMRunEffects ==
    /\ view = "ConsentManagement"
    /\ cmEffectPending
    /\ ~cmResetPending
    /\ cmHasRoom
    /\ cm' = fetchConsents(cm)
    /\ cmNet' = Send(cmNet, getConsentsRequest(cm.filterStatus))
    /\ cmFilterDeps' = cmFilterDepsNow(cm)
    /\ lastOp' = [name |-> "runEffects"]
    /\ UNCHANGED <<view, notCM, cmUpdates, cmAccount, cmSubs>>

\* A getConsents call of the effect resolves
CMFetchResolved ==
    /\ view = "ConsentManagement"
    /\ cmIdle
    /\ \E request \in BagToSet(cmNet), r \in ConsentsResponses :
         /\ cm' = fetchConsentsResolved(cm, r)
         /\ cmNet' = Settle(cmNet, request)
         /\ lastOp' = [name |-> "fetchResolved"]
    /\ UNCHANGED <<view, notCM, cmUpdates, cmAccount, cmFilterDeps, cmSubs>>

\* A getConsents call of the effect rejects
CMFetchRejected ==
    /\ view = "ConsentManagement"
    /\ cmIdle
    /\ \E request \in BagToSet(cmNet), e \in Errors :
         /\ cm' = fetchConsentsRejected(cm, e)
         /\ cmNet' = Settle(cmNet, request)
         /\ lastOp' = [name |-> "fetchRejected", err |-> e]
    /\ UNCHANGED <<view, notCM, cmUpdates, cmAccount, cmFilterDeps, cmSubs>>

\* The parent passes another account: the wallet connects, disconnects or switches
CMAccountChange ==
    /\ view = "ConsentManagement"
    /\ cmIdle
    /\ cmAccount' \in (Accounts \cup {Null}) \ {cmAccount}
    /\ lastOp' = [name |-> "accountChange"]
    /\ UNCHANGED <<view, notCM, cmUpdates, cm, cmFilterDeps, cmNet, cmSubs>>

\* The user clicks a filter button
CMSetFilter ==
    /\ view = "ConsentManagement"
    /\ cmIdle
    /\ cmFiltersRendered
    /\ cmHasRoom
    /\ \E f \in FilterStatuses \ {cm.filterStatus} :
         cm' = [cm EXCEPT !.filterStatus = f]
    /\ lastOp' = [name |-> "setFilterStatus"]
    /\ UNCHANGED <<view, notCM, cmUpdates, cmAccount, cmFilterDeps, cmNet, cmSubs>>

\* The user clicks Create New Consent / Cancel
CMToggleForm ==
    /\ view = "ConsentManagement"
    /\ cmIdle
    /\ cmCreateButtonEnabled
    /\ cm' = [cm EXCEPT !.showCreateForm = ~cm.showCreateForm]
    /\ lastOp' = [name |-> "toggleForm"]
    /\ UNCHANGED <<view, notCM, cmUpdates, cmAccount, cmFilterDeps, cmNet, cmSubs>>

\* The user edits a field of the form
CMEditForm ==
    /\ view = "ConsentManagement"
    /\ cmIdle
    /\ cmFormDisplayed
    /\ \/ \E v \in PatientIds \ {cm.formData.patientId} :
            cm' = [cm EXCEPT !.formData = [cm.formData EXCEPT !.patientId = v]]
       \/ \E v \in Purposes \ {cm.formData.purpose} :
            cm' = [cm EXCEPT !.formData = [cm.formData EXCEPT !.purpose = v]]
    /\ lastOp' = [name |-> "editForm"]
    /\ UNCHANGED <<view, notCM, cmUpdates, cmAccount, cmFilterDeps, cmNet, cmSubs>>

\* The user submits the form; both fields are required
CMSubmit ==
    /\ view = "ConsentManagement"
    /\ cmIdle
    /\ cmFormDisplayed
    /\ cm.formData.patientId # "" /\ cm.formData.purpose # ""
    /\ cmInProgress < MaxSubmits
    /\ cmSubs' = handleCreateConsent(cmSubs, cm, cmAccount)
    /\ lastOp' = [name |-> "submit"]
    /\ UNCHANGED <<view, notCM, cmUpdates, cm, cmAccount, cmFilterDeps, cmNet>>

\* The wallet signs: signMessage resolves and createConsent is called
CMSignResolved ==
    /\ view = "ConsentManagement"
    /\ cmIdle
    /\ \E sub \in BagToSet(cmSubs), signer \in Accounts :
         /\ sub.pc = "signing"
         /\ cmSubs' = Replace(cmSubs, sub, afterSign(sub, signMessage(sub.message, signer)))
    /\ lastOp' = [name |-> "signResolved"]
    /\ UNCHANGED <<view, notCM, cmUpdates, cm, cmAccount, cmFilterDeps, cmNet>>

\* The user refuses to sign: signMessage rejects
CMSignRejected ==
    /\ view = "ConsentManagement"
    /\ cmIdle
    /\ \E sub \in BagToSet(cmSubs) :
         /\ sub.pc = "signing"
         /\ cmSubs' = cmSubs (-) SetToBag({sub})
    /\ cm' = createConsentFailed(cm)
    /\ lastOp' = [name |-> "signRejected"]
    /\ UNCHANGED <<view, notCM, cmUpdates, cmAccount, cmFilterDeps, cmNet>>

\* createConsent resolves and the list is refetched
CMCreateResolved ==
    /\ view = "ConsentManagement"
    /\ cmIdle
    /\ \E sub \in BagToSet(cmSubs) :
         /\ sub.pc = "creating"
         /\ cmSubs' = Replace(cmSubs, sub, afterCreate(sub))
    /\ cm' = fetchConsents(cm)
    /\ lastOp' = [name |-> "createResolved"]
    /\ UNCHANGED <<view, notCM, cmUpdates, cmAccount, cmFilterDeps, cmNet>>

\* createConsent rejects
CMCreateRejected ==
    /\ view = "ConsentManagement"
    /\ cmIdle
    /\ \E sub \in BagToSet(cmSubs) :
         /\ sub.pc = "creating"
         /\ cmSubs' = cmSubs (-) SetToBag({sub})
    /\ cm' = createConsentFailed(cm)
    /\ lastOp' = [name |-> "createRejected"]
    /\ UNCHANGED <<view, notCM, cmUpdates, cmAccount, cmFilterDeps, cmNet>>

\* The getConsents call of an awaited fetchConsents() resolves
CMRefetchResolved ==
    /\ view = "ConsentManagement"
    /\ cmIdle
    /\ \E sub \in BagToSet(cmSubs), r \in ConsentsResponses :
         /\ sub.pc = "refetching"
         /\ cm' = fetchConsentsResolved(cm, r)
         /\ cmSubs' = Replace(cmSubs, sub, afterRefetch(sub))
         /\ lastOp' = [name |-> "refetchResolved"]
    /\ UNCHANGED <<view, notCM, cmUpdates, cmAccount, cmFilterDeps, cmNet>>

\* The getConsents call of an awaited fetchConsents() rejects
CMRefetchRejected ==
    /\ view = "ConsentManagement"
    /\ cmIdle
    /\ \E sub \in BagToSet(cmSubs), e \in Errors :
         /\ sub.pc = "refetching"
         /\ cm' = fetchConsentsRejected(cm, e)
         /\ cmSubs' = Replace(cmSubs, sub, afterRefetch(sub))
         /\ lastOp' = [name |-> "refetchRejected", err |-> e]
    /\ UNCHANGED <<view, notCM, cmUpdates, cmAccount, cmFilterDeps, cmNet>>

\* handleCreateConsent continues after the awaited fetchConsents()
CMFormReset ==
    /\ view = "ConsentManagement"
    /\ ~cmEffectPending
    /\ \E sub \in BagToSet(cmSubs) :
         /\ sub.pc = "resetting"
         /\ cmSubs' = cmSubs (-) SetToBag({sub})
    /\ cm' = resetForm(cm)
    /\ lastOp' = [name |-> "formReset"]
    /\ UNCHANGED <<view, notCM, cmUpdates, cmAccount, cmFilterDeps, cmNet>>

\* The user clicks Approve on a consent card
CMApprove ==
    /\ view = "ConsentManagement"
    /\ cmIdle
    /\ cmMainRendered
    /\ cmInProgress < MaxSubmits
    /\ cmHasRoom
    /\ \E i \in DOMAIN cm.consents :
         /\ approveRendered(cm.consents[i])
         /\ cmUpdates' = handleUpdateStatus(cmUpdates, cm, handleApprove(cm.consents[i]))
    /\ lastOp' = [name |-> "handleApprove"]
    /\ UNCHANGED <<view, notCM, cm, cmAccount, cmFilterDeps, cmNet, cmSubs>>

\* updateConsent resolves: fetchConsents() is called and not awaited
CMUpdateResolved ==
    /\ view = "ConsentManagement"
    /\ cmIdle
    /\ \E u \in BagToSet(cmUpdates) :
         /\ cmUpdates' = cmUpdates (-) SetToBag({u})
         /\ cmNet' = Send(cmNet, getConsentsRequest(u.filterStatus))
    /\ cm' = fetchConsents(cm)
    /\ lastOp' = [name |-> "updateResolved"]
    /\ UNCHANGED <<view, notCM, cmAccount, cmFilterDeps, cmSubs>>

\* updateConsent rejects
CMUpdateRejected ==
    /\ view = "ConsentManagement"
    /\ cmIdle
    /\ \E u \in BagToSet(cmUpdates) :
         cmUpdates' = cmUpdates (-) SetToBag({u})
    /\ cm' = updateConsentFailed(cm)
    /\ lastOp' = [name |-> "updateRejected"]
    /\ UNCHANGED <<view, notCM, cmAccount, cmFilterDeps, cmNet, cmSubs>>

CMNext ==
    \/ CMRunEffects
    \/ CMFetchResolved
    \/ CMFetchRejected
    \/ CMAccountChange
    \/ CMSetFilter
    \/ CMToggleForm
    \/ CMEditForm
    \/ CMSubmit
    \/ CMSignResolved
    \/ CMSignRejected
    \/ CMCreateResolved
    \/ CMCreateRejected
    \/ CMRefetchResolved
    \/ CMRefetchRejected
    \/ CMFormReset
    \/ CMApprove
    \/ CMUpdateResolved
    \/ CMUpdateRejected

----------------------------------------------------------------------------
(* PatientDetail *)

\* Values of the patientId prop
PatientIdProps == {Null, "", "patient-001", "patient-002"}

Pending == [state |-> "pending"]

Resolved(value) == [state |-> "resolved", value |-> value]

\* What apiService.getPatient resolves with
PatientResponses(patientId) == { [id |-> patientId] }

\* What apiService.getPatientRecords resolves with: the records property may be absent
RecordsResponses == { [records |-> <<[id |-> "record-001"]>>], [success |-> TRUE] }

pdInit ==
    /\ pd = [patient |-> NullObj, records |-> <<>>, loading |-> TRUE, error |-> Null]
    /\ pdPatientId \in IF view = "PatientDetail" THEN PatientIdProps ELSE {Null}
    /\ pdDeps = NeverRun
    /\ pdNet = EmptyBag

\* fetchPatientData is memoised on patientId, so both deps change together
pdDepsNow(patientId) == <<patientId, patientId>>

\* Mutant: an effect without a dependency list, run after every render
pdEffectPendingAlways == TRUE

pdEffectPending == pdDeps # pdDepsNow(pdPatientId)

\* The synchronous part of fetchPatientData: the two setters and Promise.all
fetchPatientData(st) == [st EXCEPT !.loading = TRUE, !.error = Null]

patientDataRequests(patientId) ==
    [patientId |-> patientId, getPatient |-> Pending, getPatientRecords |-> Pending]

\* The continuation of fetchPatientData after Promise.all resolved
fetchPatientDataResolved(st, patientResponse, recordsResponse) ==
    [st EXCEPT !.patient = patientResponse,
               !.records = FieldOr(recordsResponse, "records", <<>>),
               !.error = Null,
               !.loading = FALSE]

\* Mutant: a catch block without setPatient(null)
fetchPatientDataRejectedKeepsPatient(st, err) ==
    [st EXCEPT !.error = MessageOr(err, "Failed to fetch patient data"),
               !.records = <<>>,
               !.loading = FALSE]

\* The catch and finally blocks of fetchPatientData
fetchPatientDataRejected(st, err) ==
    [st EXCEPT !.error = MessageOr(err, "Failed to fetch patient data"),
               !.patient = NullObj,
               !.records = <<>>,
               !.loading = FALSE]

\* Flush of the effect: it fetches only for a truthy patientId
PDRunEffects ==
    /\ view = "PatientDetail"
    /\ pdEffectPending
    /\ IF Truthy(pdPatientId)
       THEN /\ HasRoom(pdNet)
            /\ pd' = fetchPatientData(pd)
            /\ pdNet' = Send(pdNet, patientDataRequests(pdPatientId))
       ELSE UNCHANGED <<pd, pdNet>>
    /\ pdDeps' = pdDepsNow(pdPatientId)
    /\ lastOp' = [name |-> "runEffects"]
    /\ UNCHANGED <<view, notPD, pdPatientId>>

\* The parent passes another patientId
PDSetPatientId ==
    /\ view = "PatientDetail"
    /\ ~pdEffectPending
    /\ pdPatientId' \in PatientIdProps \ {pdPatientId}
    /\ Truthy(pdPatientId') => HasRoom(pdNet)
    /\ lastOp' = [name |-> "setPatientId"]
    /\ UNCHANGED <<view, notPD, pd, pdDeps, pdNet>>

\* Mutant: the patient stored as soon as getPatient resolves, without Promise.all
PDGetPatientResolvedEager ==
    /\ view = "PatientDetail"
    /\ ~pdEffectPending
    /\ \E f \in BagToSet(pdNet) : \E r \in PatientResponses(f.patientId) :
         /\ f.getPatient = Pending
         /\ IF f.getPatientRecords = Pending
            THEN /\ pdNet' = Send(Settle(pdNet, f), [f EXCEPT !.getPatient = Resolved(r)])
                 /\ pd' = [pd EXCEPT !.patient = r]
                 /\ lastOp' = [name |-> "getPatientResolved"]
            ELSE /\ pdNet' = Settle(pdNet, f)
                 /\ pd' = fetchPatientDataResolved(pd, r, f.getPatientRecords.value)
                 /\ lastOp' = [name |-> "fetchResolved", last |-> "getPatient"]
    /\ UNCHANGED <<view, notPD, pdPatientId, pdDeps>>

\* getPatient resolves; Promise.all resolves if getPatientRecords has resolved
PDGetPatientResolved ==
    /\ view = "PatientDetail"
    /\ ~pdEffectPending
    /\ \E f \in BagToSet(pdNet) : \E r \in PatientResponses(f.patientId) :
         /\ f.getPatient = Pending
         /\ IF f.getPatientRecords = Pending
            THEN /\ pdNet' = Send(Settle(pdNet, f), [f EXCEPT !.getPatient = Resolved(r)])
                 /\ pd' = pd
                 /\ lastOp' = [name |-> "getPatientResolved"]
            ELSE /\ pdNet' = Settle(pdNet, f)
                 /\ pd' = fetchPatientDataResolved(pd, r, f.getPatientRecords.value)
                 /\ lastOp' = [name |-> "fetchResolved", last |-> "getPatient"]
    /\ UNCHANGED <<view, notPD, pdPatientId, pdDeps>>

\* getPatientRecords resolves; Promise.all resolves if getPatient has resolved
PDGetPatientRecordsResolved ==
    /\ view = "PatientDetail"
    /\ ~pdEffectPending
    /\ \E f \in BagToSet(pdNet), r \in RecordsResponses :
         /\ f.getPatientRecords = Pending
         /\ IF f.getPatient = Pending
            THEN /\ pdNet' = Send(Settle(pdNet, f), [f EXCEPT !.getPatientRecords = Resolved(r)])
                 /\ pd' = pd
                 /\ lastOp' = [name |-> "getPatientRecordsResolved"]
            ELSE /\ pdNet' = Settle(pdNet, f)
                 /\ pd' = fetchPatientDataResolved(pd, f.getPatient.value, r)
                 /\ lastOp' = [name |-> "fetchResolved", last |-> "getPatientRecords"]
    /\ UNCHANGED <<view, notPD, pdPatientId, pdDeps>>

\* getPatient rejects: Promise.all rejects at once, whatever the other call does
PDGetPatientRejected ==
    /\ view = "PatientDetail"
    /\ ~pdEffectPending
    /\ \E f \in BagToSet(pdNet), e \in Errors :
         /\ f.getPatient = Pending
         /\ pdNet' = Settle(pdNet, f)
         /\ pd' = fetchPatientDataRejected(pd, e)
         /\ lastOp' = [name |-> "fetchRejected", err |-> e, by |-> "getPatient",
                        other |-> f.getPatientRecords.state]
    /\ UNCHANGED <<view, notPD, pdPatientId, pdDeps>>

\* getPatientRecords rejects: Promise.all rejects at once
PDGetPatientRecordsRejected ==
    /\ view = "PatientDetail"
    /\ ~pdEffectPending
    /\ \E f \in BagToSet(pdNet), e \in Errors :
         /\ f.getPatientRecords = Pending
         /\ pdNet' = Settle(pdNet, f)
         /\ pd' = fetchPatientDataRejected(pd, e)
         /\ lastOp' = [name |-> "fetchRejected", err |-> e, by |-> "getPatientRecords",
                        other |-> f.getPatient.state]
    /\ UNCHANGED <<view, notPD, pdPatientId, pdDeps>>

PDNext ==
    \/ PDRunEffects
    \/ PDSetPatientId
    \/ PDGetPatientResolved
    \/ PDGetPatientRecordsResolved
    \/ PDGetPatientRejected
    \/ PDGetPatientRecordsRejected

----------------------------------------------------------------------------
(* TransactionHistory *)

TransactionsLimit == 20

\* Wallet addresses the account prop can hold
THAccounts == Accounts \cup {"0x8ba1f109"}

\* Values of the account prop: an address, or no wallet (null, or an empty string)
THAccountProps == THAccounts \cup {Null, ""}

\* What apiService.getTransactions resolves with
TransactionsResponses == { [transactions |-> <<[id |-> "tx-001"]>>], [success |-> TRUE] }

thInit ==
    /\ th = [transactions |-> <<>>, loading |-> TRUE, error |-> Null]
    /\ thAccount \in IF view = "TransactionHistory" THEN THAccountProps ELSE {Null}
    /\ thDeps = NeverRun
    /\ thNet = EmptyBag

thDepsNow(account) == <<account>>

thEffectPending == thDeps # thDepsNow(thAccount)

\* The synchronous part of fetchTransactions
fetchTransactions(st) == [st EXCEPT !.loading = TRUE, !.error = Null]

getTransactionsRequest == [walletAddress |-> Null, limit |-> TransactionsLimit]

fetchTransactionsResolved(st, response) ==
    [st EXCEPT !.transactions = FieldOr(response, "transactions", <<>>),
               !.error = Null,
               !.loading = FALSE]

fetchTransactionsRejected(st, err) ==
    [st EXCEPT !.error = MessageOr(err, "Failed to fetch transactions"),
               !.transactions = <<>>,
               !.loading = FALSE]

\* Mutant: an else branch without setLoading(false)
clearTransactionsKeepsLoading(st) == [st EXCEPT !.transactions = <<>>]

\* The else branch of the effect: the wallet is disconnected
clearTransactions(st) == [st EXCEPT !.transactions = <<>>, !.loading = FALSE]

\* Flush of the account effect
THRunEffects ==
    /\ view = "TransactionHistory"
    /\ thEffectPending
    /\ IF Truthy(thAccount)
       THEN /\ HasRoom(thNet)
            /\ th' = fetchTransactions(th)
            /\ thNet' = Send(thNet, getTransactionsRequest)
       ELSE /\ th' = clearTransactions(th)
            /\ thNet' = thNet
    /\ thDeps' = thDepsNow(thAccount)
    /\ lastOp' = [name |-> "runEffects"]
    /\ UNCHANGED <<view, notTH, thAccount>>

\* The parent passes another account
THAccountChange ==
    /\ view = "TransactionHistory"
    /\ ~thEffectPending
    /\ thAccount' \in THAccountProps \ {thAccount}
    /\ Truthy(thAccount') => HasRoom(thNet)
    /\ lastOp' = [name |-> "accountChange"]
    /\ UNCHANGED <<view, notTH, th, thDeps, thNet>>

THFetchResolved ==
    /\ view = "TransactionHistory"
    /\ ~thEffectPending
    /\ \E request \in BagToSet(thNet), r \in TransactionsResponses :
         /\ th' = fetchTransactionsResolved(th, r)
         /\ thNet' = Settle(thNet, request)
         /\ lastOp' = [name |-> "fetchResolved"]
    /\ UNCHANGED <<view, notTH, thAccount, thDeps>>

THFetchRejected ==
    /\ view = "TransactionHistory"
    /\ ~thEffectPending
    /\ \E request \in BagToSet(thNet), e \in Errors :
         /\ th' = fetchTransactionsRejected(th, e)
         /\ thNet' = Settle(thNet, request)
         /\ lastOp' = [name |-> "fetchRejected", err |-> e]
    /\ UNCHANGED <<view, notTH, thAccount, thDeps>>

THNext ==
    \/ THRunEffects
    \/ THAccountChange
    \/ THFetchResolved
    \/ THFetchRejected

----------------------------------------------------------------------------
(* StatsDashboard *)

\* What apiService.getStats resolves with: a stats object, or nothing
StatsResponses == { [totalPatients |-> 1], NullObj }

sdInit ==
    /\ sd = [stats |-> NullObj, loading |-> TRUE, error |-> Null]
    /\ sdDeps = NeverRun
    /\ sdNet = EmptyBag

\* The effect has an empty dependency list: it runs once, on mount
sdDepsNow == <<>>

sdEffectPending == sdDeps # sdDepsNow

fetchStats(st) == [st EXCEPT !.loading = TRUE, !.error = Null]

getStatsRequest == [call |-> "getStats"]

\* The continuation of fetchStats: setStats(response || null)
fetchStatsResolved(st, response) ==
    [st EXCEPT !.stats = ObjOr(response, NullObj), !.error = Null, !.loading = FALSE]

fetchStatsRejected(st, err) ==
    [st EXCEPT !.error = MessageOr(err, "Failed to fetch statistics"),
               !.stats = NullObj,
               !.loading = FALSE]

SDRunEffects ==
    /\ view = "StatsDashboard"
    /\ sdEffectPending
    /\ sd' = fetchStats(sd)
    /\ sdNet' = Send(sdNet, getStatsRequest)
    /\ sdDeps' = sdDepsNow
    /\ lastOp' = [name |-> "runEffects"]
    /\ UNCHANGED <<view, notSD>>

SDFetchResolved ==
    /\ view = "StatsDashboard"
    /\ \E request \in BagToSet(sdNet), r \in StatsResponses :
         /\ sd' = fetchStatsResolved(sd, r)
         /\ sdNet' = Settle(sdNet, request)
         /\ lastOp' = [name |-> "fetchResolved"]
    /\ UNCHANGED <<view, notSD, sdDeps>>

SDFetchRejected ==
    /\ view = "StatsDashboard"
    /\ \E request \in BagToSet(sdNet), e \in Errors :
         /\ sd' = fetchStatsRejected(sd, e)
         /\ sdNet' = Settle(sdNet, request)
         /\ lastOp' = [name |-> "fetchRejected", err |-> e]
    /\ UNCHANGED <<view, notSD, sdDeps>>

SDNext ==
    \/ SDRunEffects
    \/ SDFetchResolved
    \/ SDFetchRejected

----------------------------------------------------------------------------
(* formatUtilService *)

\* JavaScript undefined
Undefined == [undefined |-> TRUE]

\* A JavaScript string, as the sequence of its characters
Str(chars) == [chars |-> chars]

\* JavaScript falsiness of an argument that is null, undefined or a string
Falsy(v) == v \in {NullObj, Undefined, Str(<<>>)}

Min(a, b) == IF a <= b THEN a ELSE b

Max(a, b) == IF a >= b THEN a ELSE b

\* String.prototype.slice: a negative index counts from the end, indices are
\* clamped to the string, and an empty range gives the empty string
slice(chars, beginIndex, endIndex) ==
    LET len == Len(chars)
        from == IF beginIndex < 0 THEN Max(len + beginIndex, 0) ELSE Min(beginIndex, len)
        to == IF endIndex < 0 THEN Max(len + endIndex, 0) ELSE Min(endIndex, len)
    IN SubSeq(chars, from + 1, to)

Ellipsis == <<".", ".", ".">>

\* Mutant: a text as long as maxLength is cut as well
truncateDescriptionStrict(text, maxLength) ==
    IF Len(text.chars) < maxLength
    THEN text
    ELSE Str(slice(text.chars, 0, maxLength) \o Ellipsis)

truncateDescription(text, maxLength) ==
    IF Len(text.chars) <= maxLength
    THEN text
    ELSE Str(slice(text.chars, 0, maxLength) \o Ellipsis)

\* Mutant: five characters kept at the end, as in the documented example
formatWalletAddressShortTail(address) ==
    IF Falsy(address)
    THEN Str(<<>>)
    ELSE Str(slice(address.chars, 0, HeadLength) \o Ellipsis
             \o slice(address.chars, 1 - TailLength, Len(address.chars)))

formatWalletAddress(address) ==
    IF Falsy(address)
    THEN Str(<<>>)
    ELSE Str(slice(address.chars, 0, HeadLength) \o Ellipsis
             \o slice(address.chars, 0 - TailLength, Len(address.chars)))

\* Texts and limits handed to truncateDescription
Texts == {Str(chars) : chars \in UNION {[1..n -> {"a", "b"}] : n \in 0..MaxLen}}

MaxLengths == 0..(MaxLen + 1)

\* The address of the documented example
SampleAddress ==
    << "0", "x", "7", "4", "2", "d", "3", "5", "C", "c", "6", "6", "3",
       "4", "C", "0", "5", "3", "2", "9", "2", "5", "a", "3", "b", "8",
       "4", "4", "B", "c", "9", "e", "7", "5", "9", "5", "f", "0", "b",
       "E", "b" >>

\* Addresses handed to formatWalletAddress: none, or a string of any length
WalletAddresses ==
    {NullObj, Undefined, Str(SampleAddress)}
    \cup {Str(SubSeq(SampleAddress, 1, n)) : n \in 0..MaxAddressLen}

fmtInit == fmt = [fn |-> "none"]

\* A caller applies truncateDescription
FmtTruncateDescription ==
    /\ view = "formatUtilService"
    /\ \E text \in Texts, maxLength \in MaxLengths :
         fmt' = [ fn |-> "truncateDescription", text |-> text, maxLength |-> maxLength,
                  result |-> truncateDescription(text, maxLength) ]
    /\ lastOp' = [name |-> "truncateDescription"]
    /\ UNCHANGED <<view, notFmt>>

\* A caller applies formatWalletAddress
FmtFormatWalletAddress ==
    /\ view = "formatUtilService"
    /\ \E address \in WalletAddresses :
         fmt' = [ fn |-> "formatWalletAddress", address |-> address,
                  result |-> formatWalletAddress(address) ]
    /\ lastOp' = [name |-> "formatWalletAddress"]
    /\ UNCHANGED <<view, notFmt>>

FmtNext ==
    \/ FmtTruncateDescription
    \/ FmtFormatWalletAddress

----------------------------------------------------------------------------
(* MedicalRecordCard *)

RecordIds == {"record-001", "record-002", "record-003"}

\* A description of n characters
Text(n) == Str([i \in 1..n |-> "x"])

\* Values of the record prop: the description is at the limit or one above it
Records ==
    {[id |-> id, description |-> Text(n)] :
        id \in RecordIds, n \in {DescriptionLimit, DescriptionLimit + 1}}

\* The object {}
EmptyObject == [k \in {} |-> TRUE]

mrcInit ==
    /\ mrcRecord \in IF view = "MedicalRecordCard"
                     THEN Records
                     ELSE {[id |-> "record-001", description |-> Text(DescriptionLimit)]}
    /\ expandedRecords = EmptyObject

\* Truthiness of expanded[recordId]: a missing key reads as undefined
isExpanded(expanded, recordId) == recordId \in DOMAIN expanded /\ expanded[recordId]

\* Mutant: an updater that does not spread prev
toggleExpandReplaces(prev, recordId) ==
    [k \in {recordId} |-> ~isExpanded(prev, recordId)]

\* The updater toggleExpand hands to setExpandedRecords
toggleExpand(prev, recordId) ==
    [k \in DOMAIN prev \cup {recordId} |->
        IF k = recordId THEN ~isExpanded(prev, recordId) ELSE prev[k]]

\* What the render shows
mrcDescriptionShown ==
    IF isExpanded(expandedRecords, mrcRecord.id)
    THEN mrcRecord.description
    ELSE truncateDescription(mrcRecord.description, DescriptionLimit)

mrcButtonRendered == Len(mrcRecord.description.chars) > DescriptionLimit

mrcRender ==
    [ description |-> mrcDescriptionShown,
      button |-> IF ~mrcButtonRendered THEN Null
                 ELSE IF isExpanded(expandedRecords, mrcRecord.id) THEN "Show less"
                 ELSE "Read more" ]

\* The record ids whose flag reads as expanded
mrcExpanded == {id \in RecordIds : isExpanded(expandedRecords, id)}

\* The user clicks Read more / Show less
MRCToggleExpand ==
    /\ view = "MedicalRecordCard"
    /\ mrcButtonRendered
    /\ expandedRecords' = toggleExpand(expandedRecords, mrcRecord.id)
    /\ lastOp' = [ name |-> "toggleExpand", recordId |-> mrcRecord.id,
                   before |-> [render |-> mrcRender, expanded |-> mrcExpanded],
                   twice |-> (lastOp.name = "toggleExpand" /\ lastOp.recordId = mrcRecord.id) ]
    /\ UNCHANGED <<view, notMRC, mrcRecord>>

\* The parent passes another record to the mounted card
MRCSetRecord ==
    /\ view = "MedicalRecordCard"
    /\ mrcRecord' \in Records \ {mrcRecord}
    /\ lastOp' = [name |-> "setRecord"]
    /\ UNCHANGED <<view, notMRC, expandedRecords>>

MRCNext ==
    \/ MRCToggleExpand
    \/ MRCSetRecord

----------------------------------------------------------------------------
(* Specifications *)

Views == {"PatientList", "ConsentManagement", "PatientDetail", "TransactionHistory",
          "StatsDashboard", "MedicalRecordCard", "formatUtilService"}

Init ==
    /\ view \in Views
    /\ lastOp = [name |-> "mount"]
    /\ plInit
    /\ cmInit
    /\ pdInit
    /\ thInit
    /\ sdInit
    /\ mrcInit
    /\ fmtInit

Next == PLNext \/ CMNext \/ PDNext \/ THNext \/ SDNext \/ MRCNext \/ FmtNext

Spec == Init /\ [][Next]_vars

InitPL == Init /\ view = "PatientList"

SpecPL == InitPL /\ [][PLNext]_vars

InitCM == Init /\ view = "ConsentManagement"

SpecCM == InitCM /\ [][CMNext]_vars

InitPD == Init /\ view = "PatientDetail"

SpecPD == InitPD /\ [][PDNext]_vars

InitTH == Init /\ view = "TransactionHistory"

SpecTH == InitTH /\ [][THNext]_vars

InitMRC == Init /\ view = "MedicalRecordCard"

SpecMRC == InitMRC /\ [][MRCNext]_vars

InitFmt == Init /\ view = "formatUtilService"

SpecFmt == InitFmt /\ [][FmtNext]_vars

----------------------------------------------------------------------------
(* PatientList: properties *)

ArmedTimers == {i \in 1..MaxTimers : plTimers[i] # Free}

\* The requests a step adds to the getPatients calls in flight
plIssued == {r \in BagToSet(plNet') : CopiesIn(r, plNet') > CopiesIn(r, plNet)}

\* C1: searchTerm only ever takes the value searchInput has held for the whole
\* debounce interval; at most one debounce timer is armed at any time; and every
\* getPatients request carries the searchTerm of that moment, so no superseded
\* input value is ever sent as a search term.
DebounceAppliesSettledInput ==
    /\ [](Cardinality(ArmedTimers) <= 1)
    /\ [][pl'.searchTerm # pl.searchTerm =>
             /\ pl'.searchTerm = pl.searchInput
             /\ sinceInput >= DebounceMs]_vars
    /\ [][\A r \in plIssued : r.search = pl.searchTerm]_vars

\* C1 witness: the timer applied "a" after the input had rested for DebounceMs
DebounceApplied ==
    /\ lastOp.name = "timerFire"
    /\ pl.searchTerm = "a"
    /\ pl.searchInput = "a"
    /\ sinceInput = DebounceMs

\* C2: the timer callback leaves currentPage = 1 together with the new
\* searchTerm, and the request the fetch effect issues for a changed search term
\* asks for page 1 with that term.
NewTermFetchesPageOne ==
    /\ [](lastOp.name = "timerFire" => pl.currentPage = 1 /\ pl.searchTerm = pl.searchInput)
    /\ [][\A r \in plIssued :
             (plFetchDeps # NeverRun /\ plFetchDeps[2] # pl.searchTerm) =>
                 r.page = 1 /\ r.search = pl.searchTerm]_vars

\* C2 witness: a new term was applied while page 2 was shown, and the request for
\* it is in flight
NewTermRequested ==
    /\ lastOp.name = "runEffects"
    /\ pl.searchTerm = "a"
    /\ pl.pagination # NullObj
    /\ pl.pagination.page = 2
    /\ BagIn([page |-> 1, limit |-> PageSize, search |-> "a"], plNet)

\* C3: right after a getPatients call resolved, currentPage is the page the
\* response reports and the stored pagination carries that response's page and
\* totalPages with hasNextPage = (page < totalPages) and hasPrevPage = (page > 1).
PaginationFollowsResponse ==
    lastOp.name = "fetchResolved" =>
        LET p == lastOp.response.pagination
        IN /\ pl.currentPage = p.page
           /\ pl.pagination.page = p.page
           /\ pl.pagination.totalPages = p.totalPages
           /\ pl.pagination.hasNextPage = (p.page < p.totalPages)
           /\ pl.pagination.hasPrevPage = (p.page > 1)

\* C3 witness: a response for page 2 of 2 arrived while page 1 was current
PageTakenFromResponse ==
    /\ lastOp.name = "fetchResolved"
    /\ lastOp.response.pagination = [page |-> 2, totalPages |-> 2]
    /\ plFetchDeps[1] = 1
    /\ pl.currentPage = 2

\* C4: a click on Next moves currentPage up by exactly one when pagination is
\* known and has a next page, a click on Previous moves it down by exactly one
\* when pagination is known and has a previous page; otherwise the click changes
\* no state and leaves no fetch to be issued.
PageHandlersFrame ==
    [][/\ lastOp'.name = "handleNextPage" =>
            /\ IF pl.pagination # NullObj /\ pl.pagination.hasNextPage
               THEN pl' = [pl EXCEPT !.currentPage = pl.currentPage + 1]
               ELSE pl' = pl /\ ~plFetchEffectPending'
            /\ UNCHANGED <<plFetchDeps, plDebounceDeps, plTimers, plTimer, plNet, sinceInput>>
       /\ lastOp'.name = "handlePreviousPage" =>
            /\ IF pl.pagination # NullObj /\ pl.pagination.hasPrevPage
               THEN pl' = [pl EXCEPT !.currentPage = pl.currentPage - 1]
               ELSE pl' = pl /\ ~plFetchEffectPending'
            /\ UNCHANGED <<plFetchDeps, plDebounceDeps, plTimers, plTimer, plNet, sinceInput>>
      ]_vars

\* C4 witness: Next was clicked with no next page, and nothing happened
NextClickedWithoutNextPage ==
    /\ lastOp.name = "handleNextPage"
    /\ ~pl.pagination.hasNextPage
    /\ pl.currentPage = pl.pagination.page
    /\ ~plEffectsPending
    /\ ~pl.loading

\* C5: whenever the pagination controls are rendered, Next is enabled only if
\* pagination.hasNextPage and Previous is enabled only if pagination.hasPrevPage.
ButtonsFollowPaginationFlags ==
    plControlsRendered =>
        /\ plNextEnabled => pl.pagination.hasNextPage
        /\ plPreviousEnabled => pl.pagination.hasPrevPage

\* C6: once a new search term has been applied, the pagination of the previous
\* search is no longer held.
PaginationClearedOnNewTerm ==
    (plFetchDeps # NeverRun /\ plFetchDeps[2] # pl.searchTerm) => pl.pagination = NullObj

----------------------------------------------------------------------------
(* ConsentManagement: properties *)

CreateAfterSign ==
    \A sub \in BagToSet(cmSubs) :
        /\ sub.signCalls = 1
        /\ sub.createCalls <= 1
        /\ sub.pc = "signing" => sub.createCalls = 0
        /\ sub.createCalls = 1 =>
             /\ "signature" \in DOMAIN sub
             /\ sub.signature.over = sub.message
             /\ sub.payload.signature = sub.signature
             /\ sub.payload.walletAddress = sub.account
             /\ Truthy(sub.payload.walletAddress)
             /\ sub.message = consentMessage([patientId |-> sub.payload.patientId,
                                              purpose |-> sub.payload.purpose])

\* C9 witness: createConsent is in flight for a submission whose form has been
\* edited and whose wallet has been disconnected since
CreateInFlight ==
    \E sub \in BagToSet(cmSubs) :
        /\ sub.pc = "creating"
        /\ cm.formData # sub.formData
        /\ cmAccount # sub.account

\* C10: when signMessage or createConsent rejects, the invocation ends without a
\* further API call (no createConsent after a signing failure, no refetch) and
\* without a state update; and no step of an invocation before its success path
\* touches the form fields or the form's visibility.
RejectionLeavesForm ==
    [][/\ lastOp'.name \in {"signRejected", "createRejected"} =>
            /\ cm' = cm
            /\ cmNet' = cmNet
            /\ BagCardinality(cmSubs') = BagCardinality(cmSubs) - 1
            /\ \A sub \in BagToSet(cmSubs') : CopiesIn(sub, cmSubs') <= CopiesIn(sub, cmSubs)
       /\ lastOp'.name \in {"submit", "signResolved", "createResolved"} =>
            /\ cm'.formData = cm.formData
            /\ cm'.showCreateForm = cm.showCreateForm
      ]_vars

\* C10 witness: createConsent rejected and the filled form is still shown
CreateRejectedFormKept ==
    /\ lastOp.name = "createRejected"
    /\ cm.showCreateForm
    /\ cm.formData = [patientId |-> "patient-001", purpose |-> "Research Study Participation"]
    /\ cmSubs = EmptyBag

\* C11: when createConsent resolved the refetch is started (loading is set, a
\* getConsents call is awaited) with the form still untouched; the form is reset
\* only by an invocation whose awaited refetch has settled, as the very next step
\* after that refetch resolved or rejected; and the reset leaves patientId and
\* purpose empty and the create form hidden.
RefreshBeforeReset ==
    [][/\ lastOp'.name = "createResolved" =>
            /\ cm'.loading
            /\ cm'.formData = cm.formData /\ cm'.showCreateForm = cm.showCreateForm
            /\ \E sub \in BagToSet(cmSubs') :
                  /\ sub.pc = "refetching"
                  /\ sub.request = getConsentsRequest(sub.filterStatus)
                  /\ CopiesIn(sub, cmSubs') > CopiesIn(sub, cmSubs)
       /\ lastOp'.name = "formReset" =>
            /\ lastOp.name \in {"refetchResolved", "refetchRejected"}
            /\ ~cm.loading
            /\ cm' = [cm EXCEPT !.formData = [patientId |-> "", purpose |-> ""],
                                !.showCreateForm = FALSE]
            /\ ~cmFormDisplayed'
            /\ BagCardinality(cmSubs') = BagCardinality(cmSubs) - 1
      ]_vars

\* C11 witness: the refetch resolved with the consent list, and then the filled
\* form was emptied and hidden
FormResetAfterRefresh ==
    /\ lastOp.name = "formReset"
    /\ Len(cm.consents) = 1
    /\ cm.formData = NoFormData
    /\ ~cm.showCreateForm
    /\ cmSubs = EmptyBag

\* The invocations of handleUpdateStatus a step starts
cmUpdatesIssued ==
    {u \in BagToSet(cmUpdates') : CopiesIn(u, cmUpdates') > CopiesIn(u, cmUpdates)}

\* C12: every updateConsent call asks for status "active" and is issued for a
\* consent that the render of that moment displays with status "pending"; when
\* the update resolves one getConsents call is issued and loading is set, when it
\* rejects no call is issued and no state changes; and the un-awaited
\* getConsents calls in flight grow only by the filter effect and by a resolved
\* update.
ApproveOnlyPending ==
    [][/\ \A u \in cmUpdatesIssued :
            /\ u.body = [status |-> "active"]
            /\ cmMainRendered
            /\ \E i \in DOMAIN cm.consents :
                  cm.consents[i].id = u.consentId /\ cm.consents[i].status = "pending"
       /\ lastOp'.name = "updateResolved" =>
            /\ BagCardinality(cmUpdates') = BagCardinality(cmUpdates) - 1
            /\ BagCardinality(cmNet') = BagCardinality(cmNet) + 1
            /\ cm'.loading
       /\ lastOp'.name = "updateRejected" =>
            /\ BagCardinality(cmUpdates') = BagCardinality(cmUpdates) - 1
            /\ cmNet' = cmNet
            /\ cm' = cm
       /\ BagCardinality(cmNet') > BagCardinality(cmNet) =>
            lastOp'.name \in {"runEffects", "updateResolved"}
      ]_vars

\* C12 witness: the approval of a displayed pending consent resolved and the
\* refetch of the list is in flight
ApprovalRefetched ==
    /\ lastOp.name = "updateResolved"
    /\ cm.consents = <<[id |-> "consent-001", status |-> "pending"]>>
    /\ cm.loading
    /\ cmUpdates = EmptyBag
    /\ BagCardinality(cmNet) = 1

\* C13: the filter effect runs as the first step after the mount and as the very
\* next step after each change of filterStatus, and at no other time; each run
\* issues exactly one getConsents call, with no patient filter and with status
\* null when filterStatus is 'all' and filterStatus itself otherwise.
FilterEffectFetchesOnce ==
    [][/\ lastOp'.name = "runEffects" =>
            /\ lastOp.name = "mount" \/ cmFilterDeps # <<cm.filterStatus>>
            /\ lastOp.name \in {"mount", "setFilterStatus"}
            /\ cmNet' = cmNet (+) SetToBag({[ patientId |-> Null,
                                              status |-> IF cm.filterStatus = "all"
                                                         THEN Null ELSE cm.filterStatus ]})
            /\ cm'.filterStatus = cm.filterStatus
       /\ lastOp.name \in {"mount", "setFilterStatus"} => lastOp'.name = "runEffects"
       /\ lastOp'.name = "setFilterStatus" => cm'.filterStatus # cm.filterStatus
      ]_vars

\* C13 witness: the filter was changed to 'pending' and the effect has issued the
\* call for it
PendingFilterFetched ==
    /\ view = "ConsentManagement"
    /\ lastOp.name = "runEffects"
    /\ cm.filterStatus = "pending"
    /\ cmFilterDeps = <<"pending">>
    /\ BagIn([patientId |-> Null, status |-> "pending"], cmNet)

----------------------------------------------------------------------------
(* TransactionHistory: properties *)

\* The requests a step adds to the getTransactions calls in flight
thIssued == {r \in BagToSet(thNet') : CopiesIn(r, thNet') > CopiesIn(r, thNet)}

\* C14: the request the account effect issues for a connected account is
\* restricted to that account's address and limited to 20 results.
RequestRestrictedToAccount ==
    [][(lastOp'.name = "runEffects" /\ Truthy(thAccount)) =>
          /\ thIssued # {}
          /\ \A r \in thIssued : r.walletAddress = thAccount /\ r.limit = TransactionsLimit]_vars

\* C15: the account effect runs as the first step after the mount and as the
\* very next step after each change of the account prop, and at no other time;
\* a run with an account issues exactly one getTransactions call and sets
\* loading; a run without an account issues no call, empties transactions and
\* clears loading.
AccountEffectReactsOnce ==
    [][/\ lastOp'.name = "runEffects" =>
            /\ lastOp.name \in {"mount", "accountChange"}
            /\ thAccount' = thAccount
            /\ IF thAccount # Null /\ thAccount # ""
               THEN /\ BagCardinality(thNet') = BagCardinality(thNet) + 1
                    /\ Cardinality(thIssued) = 1
                    /\ th'.loading
               ELSE /\ thNet' = thNet
                    /\ th'.transactions = <<>>
                    /\ ~th'.loading
       /\ lastOp.name \in {"mount", "accountChange"} => lastOp'.name = "runEffects"
       /\ lastOp'.name = "accountChange" => thAccount' # thAccount /\ thNet' = thNet /\ th' = th
       /\ thIssued # {} => lastOp'.name = "runEffects"
      ]_vars

\* C15 witness: the wallet was disconnected while a fetch was in flight; the
\* effect cleared the list and the loading flag and issued nothing
DisconnectCleared ==
    /\ view = "TransactionHistory"
    /\ lastOp.name = "runEffects"
    /\ thAccount = Null
    /\ thDeps = <<Null>>
    /\ th.transactions = <<>>
    /\ ~th.loading
    /\ BagCardinality(thNet) = 1

----------------------------------------------------------------------------
(* PatientDetail: properties *)

\* The fetchPatientData calls a step starts
pdIssued == {f \in BagToSet(pdNet') : CopiesIn(f, pdNet') > CopiesIn(f, pdNet)
                                       /\ f.getPatient = Pending
                                       /\ f.getPatientRecords = Pending}

\* The fetchPatientData calls a step ends
pdSettled == {f \in BagToSet(pdNet) : CopiesIn(f, pdNet') < CopiesIn(f, pdNet)}

\* C16: a fetch starts both requests pending, for the patientId of that render;
\* while only one of the two has resolved no state changes; patient and records
\* are stored in one step, when the second request resolves, with error null; a
\* rejection of either request, whether the other is pending or has resolved,
\* leaves patient null, records empty, an error message and loading false; and
\* patient and records change in no other step.
AllOrNothing ==
    [][/\ \A f \in pdIssued : f.patientId = pdPatientId
       /\ lastOp'.name \in {"getPatientResolved", "getPatientRecordsResolved"} =>
            /\ pd' = pd
            /\ \E f \in pdSettled : f.getPatient = Pending /\ f.getPatientRecords = Pending
       /\ lastOp'.name = "fetchResolved" =>
            /\ \E f \in pdSettled :
                  /\ (f.getPatient = Pending) # (f.getPatientRecords = Pending)
                  /\ pd'.patient = [id |-> f.patientId]
            /\ pd'.error = Null
            /\ ~pd'.loading
       /\ lastOp'.name = "fetchRejected" =>
            /\ pdSettled # {}
            /\ pd'.patient = NullObj
            /\ pd'.records = <<>>
            /\ pd'.error # Null /\ pd'.error # ""
            /\ ~pd'.loading
       /\ (pd'.patient # pd.patient \/ pd'.records # pd.records) =>
            lastOp'.name \in {"fetchResolved", "fetchRejected"}
      ]_vars

\* C16 witness: the records request rejected after the patient request had
\* resolved, and nothing of the resolved patient is stored
RejectedAfterPartnerResolved ==
    /\ view = "PatientDetail"
    /\ lastOp.name = "fetchRejected"
    /\ lastOp.by = "getPatientRecords"
    /\ lastOp.other = "resolved"
    /\ pd.patient = NullObj
    /\ pd.records = <<>>
    /\ pd.error = "Network Error"

\* C17: the effect runs as the first step after the mount and as the very next
\* step after each change of patientId, and at no other time; a run with a
\* truthy patientId starts exactly one fetch, for that patientId; a run with a
\* null or empty patientId starts none and changes no state; and no fetch in
\* flight is for a null or empty patientId.
FetchOncePerPatientId ==
    /\ [](\A f \in BagToSet(pdNet) : f.patientId # Null /\ f.patientId # "")
    /\ [][/\ lastOp'.name = "runEffects" =>
               /\ lastOp.name \in {"mount", "setPatientId"}
               /\ pdPatientId' = pdPatientId
               /\ IF pdPatientId # Null /\ pdPatientId # ""
                  THEN /\ BagCardinality(pdNet') = BagCardinality(pdNet) + 1
                       /\ \E f \in pdIssued : f.patientId = pdPatientId
                       /\ pd'.loading
                  ELSE pdNet' = pdNet /\ pd' = pd
          /\ lastOp.name \in {"mount", "setPatientId"} => lastOp'.name = "runEffects"
          /\ lastOp'.name = "setPatientId" =>
               pdPatientId' # pdPatientId /\ pdNet' = pdNet /\ pd' = pd
          /\ pdIssued # {} => lastOp'.name = "runEffects"
          ]_vars

\* C17 witness: patient-001 is shown, the prop changed to patient-002 and the
\* effect has started the fetch for patient-002
NextPatientFetched ==
    /\ view = "PatientDetail"
    /\ lastOp.name = "runEffects"
    /\ pd.patient = [id |-> "patient-001"]
    /\ pdPatientId = "patient-002"
    /\ pd.loading
    /\ pdNet = SetToBag({[patientId |-> "patient-002", getPatient |-> Pending,
                          getPatientRecords |-> Pending]})

----------------------------------------------------------------------------
(* MedicalRecordCard: properties *)

\* C18: on mount no record reads as expanded; a toggle flips the flag of the
\* record it is called for and leaves the flag of every other record id as it
\* was; and a toggle that directly follows a toggle of the same record restores
\* the flags and the render (description shown, button label) that preceded the
\* first of the two.
ToggleFlipsOne ==
    /\ [](lastOp.name = "mount" => mrcExpanded = {})
    /\ [][lastOp'.name = "toggleExpand" =>
             /\ isExpanded(expandedRecords', lastOp'.recordId)
                  = ~isExpanded(expandedRecords, lastOp'.recordId)
             /\ \A id \in RecordIds \ {lastOp'.recordId} :
                  /\ isExpanded(expandedRecords', id) = isExpanded(expandedRecords, id)
                  /\ id \in DOMAIN expandedRecords' <=> id \in DOMAIN expandedRecords
             /\ (lastOp.name = "toggleExpand" /\ lastOp.recordId = lastOp'.recordId) =>
                  /\ mrcExpanded' = lastOp.before.expanded
                  /\ mrcRender' = lastOp.before.render]_vars

\* C18 witness: with record-002 expanded, record-001 was expanded and collapsed
\* again by two clicks in a row; its key stays in the map with the flag false
ToggledTwice ==
    /\ view = "MedicalRecordCard"
    /\ lastOp.name = "toggleExpand"
    /\ lastOp.twice
    /\ lastOp.recordId = "record-001"
    /\ mrcExpanded = {"record-002"}
    /\ "record-001" \in DOMAIN expandedRecords
    /\ mrcRender.button = "Read more"
    /\ Len(mrcRender.description.chars) = DescriptionLimit + Len(Ellipsis)

----------------------------------------------------------------------------
(* formatUtilService: properties *)

\* C19: truncateDescription returns the text itself when its length is at most
\* maxLength (a text of exactly maxLength characters included), and otherwise
\* the first maxLength characters of the text followed by three dots.
TruncateKeepsOrCuts ==
    lastOp.name = "truncateDescription" =>
        LET text == fmt.text.chars
            result == fmt.result.chars
        IN IF Len(text) <= fmt.maxLength
           THEN result = text
           ELSE /\ Len(result) = fmt.maxLength + 3
                /\ \A i \in 1..fmt.maxLength : result[i] = text[i]
                /\ \A i \in 1..3 : result[fmt.maxLength + i] = "."

\* C19 witness: a text of exactly maxLength characters came back unchanged
TextAtLimitUnchanged ==
    /\ lastOp.name = "truncateDescription"
    /\ fmt.text = Str(<<"a", "b", "a">>)
    /\ fmt.maxLength = Len(fmt.text.chars)
    /\ fmt.result = fmt.text

----------------------------------------------------------------------------
(* All fetching components: properties *)

\* The message a component shows for a rejection carrying err
ShownMessage(err, dflt) ==
    IF "message" \in DOMAIN err /\ err.message # "" THEN err.message ELSE dflt

Rejected == lastOp.name \in {"fetchRejected", "refetchRejected"}

Fulfilled == lastOp.name \in {"fetchResolved", "refetchResolved"}

\* C7: in each of the five fetching components, right after a fetch rejected
\* error holds the error's message (the component's default message when it has
\* none), the data is back to its empty value and loading is false; right after a
\* fetch resolved error is null and loading is false.
FetchOutcomeStored ==
    /\ view = "PatientList" =>
         /\ Rejected => /\ pl.error = ShownMessage(lastOp.err, "Failed to fetch patients")
                         /\ pl.patients = <<>>
                         /\ ~pl.loading
         /\ Fulfilled => pl.error = Null /\ ~pl.loading
    /\ view = "PatientDetail" =>
         /\ Rejected => /\ pd.error = ShownMessage(lastOp.err, "Failed to fetch patient data")
                         /\ pd.patient = NullObj
                         /\ pd.records = <<>>
                         /\ ~pd.loading
         /\ Fulfilled => pd.error = Null /\ ~pd.loading
    /\ view = "ConsentManagement" =>
         /\ Rejected => /\ cm.error = ShownMessage(lastOp.err, "Failed to fetch consents")
                         /\ cm.consents = <<>>
                         /\ ~cm.loading
         /\ Fulfilled => cm.error = Null /\ ~cm.loading
    /\ view = "TransactionHistory" =>
         /\ Rejected => /\ th.error = ShownMessage(lastOp.err, "Failed to fetch transactions")
                         /\ th.transactions = <<>>
                         /\ ~th.loading
         /\ Fulfilled => th.error = Null /\ ~th.loading
    /\ view = "StatsDashboard" =>
         /\ Rejected => /\ sd.error = ShownMessage(lastOp.err, "Failed to fetch statistics")
                         /\ sd.stats = NullObj
                         /\ ~sd.loading
         /\ Fulfilled => sd.error = Null /\ ~sd.loading

\* C7 witness: PatientDetail had a patient loaded, the fetch for the next
\* patientId rejected with an error that has no message, and the default is shown
RejectionStored ==
    /\ view = "PatientDetail"
    /\ lastOp.name = "fetchRejected"
    /\ lastOp.err = [message |-> ""]
    /\ pdPatientId = "patient-002"
    /\ pd.error = "Failed to fetch patient data"
    /\ pd.patient = NullObj

====
